---- MODULE Spec2Model ----
(***************************************************************************)
(* Model of the markdown-to-HTML engine of src/src/generator.rs:           *)
(* escape_html, the four inline passes, markdown_to_html and the          *)
(* frontmatter part of parse_post.  A string is a sequence of one-         *)
(* character strings, so that every scan, replacement and trim is          *)
(* computed character by character as the code computes it.                *)
(***************************************************************************)
EXTENDS Integers, Sequences, FiniteSets, TLC

VARIABLES
    pc,             \* position of the function under analysis
    text,           \* argument of escape_html / process_inline_markdown
    once,           \* escape_html(text)
    twice,          \* escape_html(escape_html(text))
    after_image,    \* result after parse_image
    after_link,     \* result after parse_link
    after_bold,     \* result after parse_bold
    result,         \* result after parse_italic (process_inline_markdown's value)
    lines,          \* lines that markdown.lines() has yielded so far
    html,           \* markdown_to_html: html
    in_code_block,  \* markdown_to_html: in_code_block
    code_content,   \* markdown_to_html: code_content
    returned,       \* markdown_to_html: the returned string
    content,        \* parse_post: lines of the file read so far
    in_frontmatter, \* parse_post: in_frontmatter
    frontmatter,    \* parse_post: frontmatter
    html_content,   \* parse_post: html_content (the raw body)
    post            \* parse_post: the returned Option<Post>

vars == <<pc, text, once, twice, after_image, after_link, after_bold, result,
          lines, html, in_code_block, code_content, returned,
          content, in_frontmatter, frontmatter, html_content, post>>

escVars == <<text, once, twice>>
inlineVars == <<after_image, after_link, after_bold, result>>
blockVars == <<lines, html, in_code_block, code_content, returned>>
postVars == <<content, in_frontmatter, frontmatter, html_content, post>>

(***************************************************************************)
(* Bounds of the model.                                                    *)
(***************************************************************************)
MaxEscLen == 4
MaxInlineLen == 5
MaxEmphLen == 7
MaxLines == 4
MaxQuotes == 2
MaxFrontChars == 24
MaxPostLines == 3

(***************************************************************************)
(* Strings.                                                                *)
(***************************************************************************)
NL == "\n"
QUOTE == "\""

RECURSIVE Strs(_, _)
\* All strings over alphabet A of length at most n.
Strs(A, n) ==
    IF n = 0 THEN {<<>>}
    ELSE LET S == Strs(A, n - 1)
         IN  S \cup {Append(s, c) : s \in {t \in S : Len(t) = n - 1}, c \in A}

RECURSIVE Concat(_)
\* The concatenation of a sequence of strings.
Concat(ss) == IF ss = <<>> THEN <<>> ELSE Head(ss) \o Concat(Tail(ss))

\* s from position i to its end.
From(s, i) == SubSeq(s, i, Len(s))

\* str::starts_with / the test of str::strip_prefix.
starts_with(s, p) == Len(s) >= Len(p) /\ SubSeq(s, 1, Len(p)) = p

\* chars.peek() when the iterator has consumed position i: the next
\* character, or "" for None.
peek(s, i) == IF i < Len(s) THEN s[i + 1] ELSE ""

\* The least of the positions hits, or 0 when there is none: the inner
\* while let Some(c) = chars.next() loops stop at the first position that
\* passes their test.
first_match(hits) ==
    IF hits = {} THEN 0 ELSE CHOOSE j \in hits : \A k \in hits : j <= k

(***************************************************************************)
(* escape_html: five chained str::replace calls.                           *)
(***************************************************************************)
AMP == <<"&", "a", "m", "p", ";">>
LT == <<"&", "l", "t", ";">>
GT == <<"&", "g", "t", ";">>
QUOT == <<"&", "q", "u", "o", "t", ";">>
APOS == <<"&", "#", "3", "9", ";">>

RECURSIVE replace(_, _, _)
\* str::replace with a one-character pattern: every occurrence of c, left
\* to right, becomes r.
replace(s, c, r) ==
    IF s = <<>> THEN <<>>
    ELSE (IF Head(s) = c THEN r ELSE <<Head(s)>>) \o replace(Tail(s), c, r)

\* A slip in the order of the chain: the ampersand replaced last.
escape_html_amp_last(t) ==
    replace(replace(replace(replace(replace(t, "<", LT), ">", GT),
                            QUOTE, QUOT), "'", APOS), "&", AMP)

escape_html(t) ==
    replace(replace(replace(replace(replace(t, "&", AMP), "<", LT), ">", GT),
                    QUOTE, QUOT), "'", APOS)

(***************************************************************************)
(* The inline passes.  Each pass is one left-to-right scan; the model      *)
(* records the scan as a sequence of segments, one per outer-loop          *)
(* iteration: the positions from..to of the input that the iteration       *)
(* consumed, what it pushed to result (out), and which branch it took:   *)
(* "lit" (the final else: one character copied), "span" (closing           *)
(* delimiter found: a tag emitted) or "fallback" (no closing delimiter).   *)
(* The pass's value is the concatenation of the segments' out.             *)
(***************************************************************************)
Seg(kind, from, to, out) == [kind |-> kind, from |-> from, to |-> to, out |-> out]

Render(segs) == Concat([k \in 1..Len(segs) |-> segs[k].out])

STRONG_OPEN == <<"<", "s", "t", "r", "o", "n", "g", ">">>
STRONG_CLOSE == <<"<", "/", "s", "t", "r", "o", "n", "g", ">">>
EM_OPEN == <<"<", "e", "m", ">">>
EM_CLOSE == <<"<", "/", "e", "m", ">">>
A_OPEN == <<"<", "a", " ", "h", "r", "e", "f", "=", QUOTE>>
A_MID == <<QUOTE, ">">>
A_CLOSE == <<"<", "/", "a", ">">>
IMG_OPEN == <<"<", "i", "m", "g", " ", "s", "r", "c", "=", QUOTE>>
IMG_MID == <<QUOTE, " ", "a", "l", "t", "=", QUOTE>>
IMG_CLOSE == <<QUOTE, " ", "/", ">">>

\* ---- parse_bold ----

\* c == '*' && chars.peek() == Some(&'*') at position j.
BoldDelim(s, j) == s[j] = "*" /\ peek(s, j) = "*"

\* Closing found: the tag around the escaped content.
bold_span(bold_content) == STRONG_OPEN \o escape_html(bold_content) \o STRONG_CLOSE

\* No closing found: the two asterisks and the content, as read.
bold_fallback(bold_content) == <<"*", "*">> \o bold_content

RECURSIVE BoldScan(_, _)
BoldScan(s, i) ==
    IF i > Len(s) THEN <<>>
    ELSE IF BoldDelim(s, i)
    THEN LET j == first_match({n \in i + 2..Len(s) : BoldDelim(s, n)})
         IN  IF j # 0
             THEN <<Seg("span", i, j + 1, bold_span(SubSeq(s, i + 2, j - 1)))>>
                  \o BoldScan(s, j + 2)
             ELSE <<Seg("fallback", i, Len(s), bold_fallback(From(s, i + 2)))>>
    ELSE <<Seg("lit", i, i, <<s[i]>>)>> \o BoldScan(s, i + 1)

parse_bold(t) == Render(BoldScan(t, 1))

\* ---- parse_italic ----

\* A slip: every asterisk taken as a delimiter, the lookahead forgotten.
ItalicDelimNoLookahead(s, j) == s[j] = "*"

\* c == '*' && chars.peek() != Some(&'*') at position j: the test of the
\* outer loop (an opening) and of the inner loop (a closing).
ItalicDelim(s, j) == s[j] = "*" /\ peek(s, j) # "*"

italic_span(italic_content) == EM_OPEN \o escape_html(italic_content) \o EM_CLOSE

\* A slip: the fallback forgets the asterisk it consumed.
italic_fallback_dropped(italic_content) == italic_content

italic_fallback(italic_content) == <<"*">> \o italic_content

RECURSIVE ItalicScan(_, _)
ItalicScan(s, i) ==
    IF i > Len(s) THEN <<>>
    ELSE IF ItalicDelim(s, i)
    THEN LET j == first_match({n \in i + 1..Len(s) : ItalicDelim(s, n)})
         IN  IF j # 0
             THEN <<Seg("span", i, j, italic_span(SubSeq(s, i + 1, j - 1)))>>
                  \o ItalicScan(s, j + 1)
             ELSE <<Seg("fallback", i, Len(s), italic_fallback(From(s, i + 1)))>>
    ELSE <<Seg("lit", i, i, <<s[i]>>)>> \o ItalicScan(s, i + 1)

parse_italic(t) == Render(ItalicScan(t, 1))

\* ---- parse_link ----

link_span(link_text, url) ==
    A_OPEN \o escape_html(url) \o A_MID \o escape_html(link_text) \o A_CLOSE

\* ]( found but no ): lines 340-344.
link_fallback_paren(link_text, url) == <<"[">> \o link_text \o <<"]", "(">> \o url

\* No ](: lines 347-351.
link_fallback(link_text, found_close_bracket) ==
    <<"[">> \o link_text \o (IF found_close_bracket THEN <<"]">> ELSE <<>>)

RECURSIVE LinkScan(_, _)
LinkScan(s, i) ==
    IF i > Len(s) THEN <<>>
    ELSE IF s[i] = "["
    THEN LET j == first_match({n \in i + 1..Len(s) : s[n] = "]"})
             link_text == IF j # 0 THEN SubSeq(s, i + 1, j - 1) ELSE From(s, i + 1)
         IN  IF j # 0 /\ peek(s, j) = "("
             THEN LET k == first_match({n \in j + 2..Len(s) : s[n] = ")"})
                  IN  IF k # 0
                      THEN <<Seg("span", i, k,
                                 link_span(link_text, SubSeq(s, j + 2, k - 1)))>>
                           \o LinkScan(s, k + 1)
                      ELSE <<Seg("fallback", i, Len(s),
                                 link_fallback_paren(link_text, From(s, j + 2)))>>
             ELSE IF j # 0
             THEN <<Seg("fallback", i, j, link_fallback(link_text, TRUE))>>
                  \o LinkScan(s, j + 1)
             ELSE <<Seg("fallback", i, Len(s), link_fallback(link_text, FALSE))>>
    ELSE <<Seg("lit", i, i, <<s[i]>>)>> \o LinkScan(s, i + 1)

parse_link(t) == Render(LinkScan(t, 1))

\* ---- parse_image ----

image_span(alt_text, url) ==
    IMG_OPEN \o escape_html(url) \o IMG_MID \o escape_html(alt_text) \o IMG_CLOSE

image_fallback_paren(alt_text, url) == <<"!", "[">> \o alt_text \o <<"]", "(">> \o url

image_fallback(alt_text, found_close_bracket) ==
    <<"!", "[">> \o alt_text \o (IF found_close_bracket THEN <<"]">> ELSE <<>>)

RECURSIVE ImageScan(_, _)
ImageScan(s, i) ==
    IF i > Len(s) THEN <<>>
    ELSE IF s[i] = "!" /\ peek(s, i) = "["
    THEN LET j == first_match({n \in i + 2..Len(s) : s[n] = "]"})
             alt_text == IF j # 0 THEN SubSeq(s, i + 2, j - 1) ELSE From(s, i + 2)
         IN  IF j # 0 /\ peek(s, j) = "("
             THEN LET k == first_match({n \in j + 2..Len(s) : s[n] = ")"})
                  IN  IF k # 0
                      THEN <<Seg("span", i, k,
                                 image_span(alt_text, SubSeq(s, j + 2, k - 1)))>>
                           \o ImageScan(s, k + 1)
                      ELSE <<Seg("fallback", i, Len(s),
                                 image_fallback_paren(alt_text, From(s, j + 2)))>>
             ELSE IF j # 0
             THEN <<Seg("fallback", i, j, image_fallback(alt_text, TRUE))>>
                  \o ImageScan(s, j + 1)
             ELSE <<Seg("fallback", i, Len(s), image_fallback(alt_text, FALSE))>>
    ELSE <<Seg("lit", i, i, <<s[i]>>)>> \o ImageScan(s, i + 1)

parse_image(t) == Render(ImageScan(t, 1))

\* Process in order: images, links, bold, italic.
process_inline_markdown(t) == parse_italic(parse_bold(parse_link(parse_image(t))))

(***************************************************************************)
(* markdown_to_html.                                                       *)
(***************************************************************************)
\* The backquote character U+0060 (written as a word: the lexer of TLA+ takes
\* a backquote for the start of a quoted passage).
TICK == "tick"
FENCE == <<TICK, TICK, TICK>>
H3_PREFIX == <<"#", "#", "#", " ">>
H2_PREFIX == <<"#", "#", " ">>
H1_PREFIX == <<"#", " ">>
LI_PREFIX == <<"-", " ">>
PRE_OPEN == <<"<", "p", "r", "e", ">", "<", "c", "o", "d", "e", ">">>
PRE_CLOSE == <<"<", "/", "c", "o", "d", "e", ">", "<", "/", "p", "r", "e", ">", NL>>

\* "<tag>" and "</tag>\n".
OpenTag(tag) == <<"<">> \o tag \o <<">">>
CloseTagNL(tag) == <<"<", "/">> \o tag \o <<">", NL>>

\* char::is_whitespace, on the characters of the model's alphabets.
WhiteSpace == {" ", "\t"}

RECURSIVE trim_start(_)
trim_start(s) ==
    IF s # <<>> /\ Head(s) \in WhiteSpace THEN trim_start(Tail(s)) ELSE s

RECURSIVE trim_end(_)
trim_end(s) ==
    IF s # <<>> /\ s[Len(s)] \in WhiteSpace
    THEN trim_end(SubSeq(s, 1, Len(s) - 1)) ELSE s

\* str::trim.
trim(s) == trim_end(trim_start(s))

\* str::strip_prefix when the prefix is there.
strip_prefix(s, p) == From(s, Len(p) + 1)

\* A slip: a heading, list item or paragraph pushed without the inline passes.
wrap_no_inline(tag, inner) == OpenTag(tag) \o inner \o CloseTagNL(tag)

\* html.push_str("<tag>"); push_str(&process_inline_markdown(inner));
\* html.push_str("</tag>\n").
wrap(tag, inner) == OpenTag(tag) \o process_inline_markdown(inner) \o CloseTagNL(tag)

\* Lines 188-216: what a line outside a code block appends to html.
block(line) ==
    LET trimmed == trim(line)
    IN  IF starts_with(trimmed, H3_PREFIX)
        THEN wrap(<<"h", "3">>, strip_prefix(trimmed, H3_PREFIX))
        ELSE IF starts_with(trimmed, H2_PREFIX)
        THEN wrap(<<"h", "2">>, strip_prefix(trimmed, H2_PREFIX))
        ELSE IF starts_with(trimmed, H1_PREFIX)
        THEN wrap(<<"h", "1">>, strip_prefix(trimmed, H1_PREFIX))
        ELSE IF starts_with(trimmed, LI_PREFIX)
        THEN wrap(<<"l", "i">>, strip_prefix(trimmed, LI_PREFIX))
        ELSE IF trimmed # <<>>
        THEN wrap(<<"p">>, trimmed)
        ELSE <<>>

\* A slip: the closing fence leaves the buffer as it is.
close_fence_keep(st) ==
    [html |-> st.html \o PRE_OPEN \o escape_html(st.code_content) \o PRE_CLOSE,
     in_code_block |-> FALSE,
     code_content |-> st.code_content]

\* Lines 171-175: a fence line met inside a code block.
close_fence(st) ==
    [html |-> st.html \o PRE_OPEN \o escape_html(st.code_content) \o PRE_CLOSE,
     in_code_block |-> FALSE,
     code_content |-> <<>>]

\* One iteration of for line in markdown.lines(), on the loop's state
\* st = [html, in_code_block, code_content].
line_step(st, line) ==
    IF starts_with(line, FENCE)
    THEN IF st.in_code_block THEN close_fence(st)
         ELSE [st EXCEPT !.in_code_block = TRUE]
    ELSE IF st.in_code_block
    THEN [st EXCEPT !.code_content = @ \o line \o <<NL>>]
    ELSE [st EXCEPT !.html = @ \o block(line)]

\* A slip: an open code block flushed when the input ends.
finish_flush(st) ==
    IF st.in_code_block
    THEN st.html \o PRE_OPEN \o escape_html(st.code_content) \o PRE_CLOSE
    ELSE st.html

\* Line 219: the value of markdown_to_html once the loop has ended.
finish(st) == st.html

md_init == [html |-> <<>>, in_code_block |-> FALSE, code_content |-> <<>>]

RECURSIVE md_fold(_, _)
md_fold(st, ls) == IF ls = <<>> THEN st ELSE md_fold(line_step(st, Head(ls)), Tail(ls))

RECURSIVE str_lines(_)
\* str::lines on a string without '\r': the pieces between the newlines,
\* without a last empty piece.
str_lines(s) ==
    IF s = <<>> THEN <<>>
    ELSE LET n == first_match({j \in 1..Len(s) : s[j] = NL})
         IN  IF n = 0 THEN <<s>>
             ELSE <<SubSeq(s, 1, n - 1)>> \o str_lines(From(s, n + 1))

\* markdown_to_html on the lines of its argument.
markdown_lines_to_html(ls) == finish(md_fold(md_init, ls))

markdown_to_html(markdown) == markdown_lines_to_html(str_lines(markdown))

(***************************************************************************)
(* parse_post: the frontmatter.                                            *)
(***************************************************************************)
DELIM == <<"-", "-", "-">>
TITLE_PREFIX == <<"t", "i", "t", "l", "e", ":", " ">>
DATE_PREFIX == <<"d", "a", "t", "e", ":", " ">>
EXCERPT_PREFIX == <<"e", "x", "c", "e", "r", "p", "t", ":", " ">>

RECURSIVE trim_start_matches(_, _)
trim_start_matches(s, c) ==
    IF s # <<>> /\ Head(s) = c THEN trim_start_matches(Tail(s), c) ELSE s

RECURSIVE trim_end_matches(_, _)
trim_end_matches(s, c) ==
    IF s # <<>> /\ s[Len(s)] = c
    THEN trim_end_matches(SubSeq(s, 1, Len(s) - 1), c) ELSE s

\* A slip: one pair of surrounding characters removed, and only a pair.
trim_one_pair(s, c) ==
    IF Len(s) >= 2 /\ Head(s) = c /\ s[Len(s)] = c
    THEN SubSeq(s, 2, Len(s) - 1) ELSE s

\* str::trim_matches(char): every leading and every trailing c removed.
trim_matches(s, c) == trim_end_matches(trim_start_matches(s, c), c)

\* Lines 136-142: one frontmatter line, on the fields parsed so far.
field_step(f, line) ==
    IF starts_with(line, TITLE_PREFIX)
    THEN [f EXCEPT !.title = trim_matches(strip_prefix(line, TITLE_PREFIX), QUOTE)]
    ELSE IF starts_with(line, DATE_PREFIX)
    THEN [f EXCEPT !.date = trim_matches(strip_prefix(line, DATE_PREFIX), QUOTE)]
    ELSE IF starts_with(line, EXCERPT_PREFIX)
    THEN [f EXCEPT !.excerpt = trim_matches(strip_prefix(line, EXCERPT_PREFIX), QUOTE)]
    ELSE f

RECURSIVE field_fold(_, _)
field_fold(f, ls) ==
    IF ls = <<>> THEN f ELSE field_fold(field_step(f, Head(ls)), Tail(ls))

\* Lines 131-143.
parse_fields(fm) ==
    field_fold([title |-> <<>>, date |-> <<>>, excerpt |-> <<>>], str_lines(fm))

(***************************************************************************)
(* Inputs.                                                                 *)
(***************************************************************************)
EscAlphabet == {"&", "<", ">", QUOTE, "'", "a", ";"}
EscTexts == Strs(EscAlphabet, MaxEscLen)

InlineAlphabet == {"*", "<", "[", "]", "(", ")", "!"}
EmphAlphabet == {"*", "a", "<"}
\* The inline examples of the specification's section 8.
InlineExamples ==
    {<<"*", "*", "a", "*", "b", "*", "c", "*", "*">>,
     <<"*", "*", "b", "o", "l", "d", "*", "*">>,
     <<"*", "u", "n", "t", "e", "r", "m", "i", "n", "a", "t", "e", "d">>,
     <<"[", "t", "e", "x", "t", "]", "(", "u", "r", "l", ")">>,
     <<"!", "[", "a", "l", "t", "]", "(", "p", "i", "c", ".", "p", "n", "g", ")">>}
InlineTexts ==
    Strs(InlineAlphabet, MaxInlineLen) \cup Strs(EmphAlphabet, MaxEmphLen)
        \cup InlineExamples

\* The lines a body is made of.
BodyLines ==
    {<<>>, <<" ">>, <<"a">>, <<" ", "a", " ">>, <<"a", "<", "&">>,
     FENCE, FENCE \o <<"r">>, <<" ">> \o FENCE,
     H3_PREFIX \o <<"a">>, H2_PREFIX \o <<"a">>, H1_PREFIX \o <<"a">>,
     <<"#">>, LI_PREFIX \o <<"a">>, <<"*", "a", "*">>,
     <<" ">> \o LI_PREFIX \o <<"*", "*", "<", "*", "*">>}

RECURSIVE Rep(_, _)
\* n times the character c.
Rep(c, n) == IF n = 0 THEN <<>> ELSE <<c>> \o Rep(c, n - 1)

\* Frontmatter values: a core between runs of double quotes.
FrontValues ==
    {Rep(QUOTE, l) \o core \o Rep(QUOTE, t) :
        l \in 0..MaxQuotes, t \in 0..MaxQuotes,
        core \in {<<>>, <<"a">>, <<"a", QUOTE, "a">>}}
FrontLines ==
    {p \o v : p \in {TITLE_PREFIX, DATE_PREFIX, EXCERPT_PREFIX}, v \in FrontValues}
        \cup {<<"x", ":", " ", "a">>, <<"t", "i", "t", "l", "e", ":", "a">>}
PostLines == FrontLines \cup {DELIM, <<"a">>, FENCE}

\* Option::None, for the first line of an empty file.
NoLine == <<"None">>
NoPost == [some |-> FALSE]

(***************************************************************************)
(* escape_html applied once and again.                                     *)
(***************************************************************************)
InitEscape ==
    /\ pc = "escape"
    /\ text \in EscTexts
    /\ once = <<>> /\ twice = <<>>
    /\ after_image = <<>> /\ after_link = <<>> /\ after_bold = <<>> /\ result = <<>>
    /\ lines = <<>> /\ html = <<>> /\ in_code_block = FALSE
    /\ code_content = <<>> /\ returned = <<>>
    /\ content = <<>> /\ in_frontmatter = FALSE /\ frontmatter = <<>>
    /\ html_content = <<>> /\ post = NoPost

Escape ==
    /\ pc = "escape"
    /\ once' = escape_html(text)
    /\ pc' = "escaped"
    /\ UNCHANGED <<text, twice, inlineVars, blockVars, postVars>>

EscapeAgain ==
    /\ pc = "escaped"
    /\ twice' = escape_html(once)
    /\ pc' = "escaped twice"
    /\ UNCHANGED <<text, once, inlineVars, blockVars, postVars>>

NextEscape == Escape \/ EscapeAgain

SpecEscape == InitEscape /\ [][NextEscape]_vars

(***************************************************************************)
(* process_inline_markdown, pass by pass.                                  *)
(***************************************************************************)
InitInline ==
    /\ pc = "image"
    /\ text \in InlineTexts
    /\ once = <<>> /\ twice = <<>>
    /\ after_image = <<>> /\ after_link = <<>> /\ after_bold = <<>> /\ result = <<>>
    /\ lines = <<>> /\ html = <<>> /\ in_code_block = FALSE
    /\ code_content = <<>> /\ returned = <<>>
    /\ content = <<>> /\ in_frontmatter = FALSE /\ frontmatter = <<>>
    /\ html_content = <<>> /\ post = NoPost

Image ==
    /\ pc = "image"
    /\ after_image' = parse_image(text)
    /\ pc' = "link"
    /\ UNCHANGED <<escVars, after_link, after_bold, result, blockVars, postVars>>

Link ==
    /\ pc = "link"
    /\ after_link' = parse_link(after_image)
    /\ pc' = "bold"
    /\ UNCHANGED <<escVars, after_image, after_bold, result, blockVars, postVars>>

Bold ==
    /\ pc = "bold"
    /\ after_bold' = parse_bold(after_link)
    /\ pc' = "italic"
    /\ UNCHANGED <<escVars, after_image, after_link, result, blockVars, postVars>>

Italic ==
    /\ pc = "italic"
    /\ result' = parse_italic(after_bold)
    /\ pc' = "done"
    /\ UNCHANGED <<escVars, after_image, after_link, after_bold, blockVars, postVars>>

NextInline == Image \/ Link \/ Bold \/ Italic

SpecInline == InitInline /\ [][NextInline]_vars

(***************************************************************************)
(* markdown_to_html, line by line.                                         *)
(***************************************************************************)
InitBlock ==
    /\ pc = "scan"
    /\ lines = <<>>
    /\ html = md_init.html
    /\ in_code_block = md_init.in_code_block
    /\ code_content = md_init.code_content
    /\ returned = <<>>
    /\ text = <<>> /\ once = <<>> /\ twice = <<>>
    /\ after_image = <<>> /\ after_link = <<>> /\ after_bold = <<>> /\ result = <<>>
    /\ content = <<>> /\ in_frontmatter = FALSE /\ frontmatter = <<>>
    /\ html_content = <<>> /\ post = NoPost

\* The loop's state as a record.
MdState == [html |-> html, in_code_block |-> in_code_block, code_content |-> code_content]

\* The iterator yields a line and the loop body runs on it.
MdLine ==
    /\ pc = "scan"
    /\ Len(lines) < MaxLines
    /\ \E line \in BodyLines :
          LET st == line_step(MdState, line)
          IN  /\ lines' = Append(lines, line)
              /\ html' = st.html
              /\ in_code_block' = st.in_code_block
              /\ code_content' = st.code_content
    /\ UNCHANGED <<pc, returned, escVars, inlineVars, postVars>>

\* The iterator is exhausted: the function returns.
MdReturn ==
    /\ pc = "scan"
    /\ returned' = finish(MdState)
    /\ pc' = "done"
    /\ UNCHANGED <<lines, html, in_code_block, code_content, escVars, inlineVars, postVars>>

NextBlock == MdLine \/ MdReturn

SpecBlock == InitBlock /\ [][NextBlock]_vars

(***************************************************************************)
(* parse_post.  The slug, which depends on the path alone, is left out.    *)
(***************************************************************************)
InitPost ==
    /\ pc = "first"
    /\ content = <<>>
    /\ in_frontmatter = TRUE
    /\ frontmatter = <<>>
    /\ html_content = <<>>
    /\ post = NoPost
    /\ text = <<>> /\ once = <<>> /\ twice = <<>>
    /\ after_image = <<>> /\ after_link = <<>> /\ after_bold = <<>> /\ result = <<>>
    /\ lines = <<>> /\ html = <<>> /\ in_code_block = FALSE
    /\ code_content = <<>> /\ returned = <<>>

\* Lines 105-110: the first line must be the delimiter.
PostFirst ==
    /\ pc = "first"
    /\ \E line \in {DELIM, <<"a">>, NoLine} :
          /\ content' = <<line>>
          /\ pc' = IF line = DELIM THEN "split" ELSE "done"
    /\ UNCHANGED <<in_frontmatter, frontmatter, html_content, post,
                   escVars, inlineVars, blockVars>>

\* Lines 116-128: one more line of the file.
PostLine ==
    /\ pc = "split"
    /\ \E line \in PostLines :
          /\ Len(content) <= MaxPostLines
          /\ Len(frontmatter) + Len(html_content) + Len(line) + 1 <= MaxFrontChars
          /\ content' = Append(content, line)
          /\ IF in_frontmatter
             THEN IF line = DELIM
                  THEN /\ in_frontmatter' = FALSE
                       /\ UNCHANGED <<frontmatter, html_content>>
                  ELSE /\ frontmatter' = frontmatter \o line \o <<NL>>
                       /\ UNCHANGED <<in_frontmatter, html_content>>
             ELSE /\ html_content' = html_content \o line \o <<NL>>
                  /\ UNCHANGED <<in_frontmatter, frontmatter>>
    /\ UNCHANGED <<pc, post, escVars, inlineVars, blockVars>>

\* Lines 130-159: the file has ended; the fields are parsed, the body is
\* rendered and the Post is returned.
PostReturn ==
    /\ pc = "split"
    /\ LET f == parse_fields(frontmatter)
       IN  post' = [some |-> TRUE, title |-> f.title, date |-> f.date,
                    excerpt |-> f.excerpt,
                    html_content |-> markdown_to_html(html_content)]
    /\ pc' = "done"
    /\ UNCHANGED <<content, in_frontmatter, frontmatter, html_content,
                   escVars, inlineVars, blockVars>>

NextPost == PostFirst \/ PostLine \/ PostReturn

SpecPost == InitPost /\ [][NextPost]_vars

\* All four harnesses, each from its own initial states.
Init == InitEscape \/ InitInline \/ InitBlock \/ InitPost
Next == NextEscape \/ NextInline \/ NextBlock \/ NextPost
Spec == Init /\ [][Next]_vars

(***************************************************************************)
(* Properties of escape_html (SpecEscape).                                 *)
(***************************************************************************)
Reserved == {"&", "<", ">", QUOTE, "'"}

\* The entity of one character in a single left-to-right substitution.
Entity(c) ==
    CASE c = "&" -> AMP
      [] c = "<" -> LT
      [] c = ">" -> GT
      [] c = QUOTE -> QUOT
      [] c = "'" -> APOS
      [] OTHER -> <<c>>

PerChar(t) == Concat([k \in 1..Len(t) |-> Entity(t[k])])

\* C8: the five chained replacements equal the single per-character
\* substitution (no ampersand of an entity is escaped again), and escaping
\* twice equals escaping once exactly when the input holds no reserved
\* character.
C8_ChainIsPerChar ==
    /\ pc \in {"escaped", "escaped twice"} => once = PerChar(text)
    /\ pc = "escaped twice" =>
          /\ twice = PerChar(PerChar(text))
          /\ (twice = once) <=> (\A k \in 1..Len(text) : text[k] \notin Reserved)

C8_Witness ==
    /\ pc = "escaped twice"
    /\ text = <<"&", "<", "'">>
    /\ once = AMP \o LT \o APOS
    /\ twice # once

(***************************************************************************)
(* Properties of the inline passes (SpecInline).                           *)
(***************************************************************************)
\* The segments tile the input: nothing is skipped, nothing is read twice.
Tiles(segs, s) ==
    /\ (segs = <<>>) <=> (s = <<>>)
    /\ segs # <<>> => segs[1].from = 1 /\ segs[Len(segs)].to = Len(s)
    /\ \A k \in 1..Len(segs) - 1 : segs[k + 1].from = segs[k].to + 1

\* Every iteration that found no closing delimiter pushed exactly the
\* characters it consumed.
FallbacksVerbatim(segs, s) ==
    \A k \in 1..Len(segs) :
        segs[k].kind = "fallback" => segs[k].out = SubSeq(s, segs[k].from, segs[k].to)

HasKind(segs, kind) == \E k \in 1..Len(segs) : segs[k].kind = kind

\* A pass that found an opening delimiter but never a complete span
\* returns its input.
Lossless(segs, s, out) ==
    /\ Tiles(segs, s)
    /\ FallbacksVerbatim(segs, s)
    /\ ~HasKind(segs, "span") => out = s

\* C4: each of the four passes is lossless on unterminated markup: the
\* opening delimiter and everything consumed after it come out unchanged,
\* unescaped and in order; process_inline_markdown("*unterminated") is its
\* argument.
C4_UnterminatedIsLossless ==
    /\ pc \in {"link", "bold", "italic", "done"} =>
          Lossless(ImageScan(text, 1), text, after_image)
    /\ pc \in {"bold", "italic", "done"} =>
          Lossless(LinkScan(after_image, 1), after_image, after_link)
    /\ pc \in {"italic", "done"} =>
          Lossless(BoldScan(after_link, 1), after_link, after_bold)
    /\ pc = "done" =>
          /\ Lossless(ItalicScan(after_bold, 1), after_bold, result)
          /\ text = <<"*", "u", "n", "t", "e", "r", "m", "i", "n", "a", "t", "e", "d">>
                => result = text

\* All four passes meet an opening delimiter without its closing one.
C4_Witness ==
    /\ pc = "done"
    /\ text = <<"!", "[", "*", "*">>
    /\ HasKind(ImageScan(text, 1), "fallback")
    /\ HasKind(LinkScan(after_image, 1), "fallback")
    /\ HasKind(BoldScan(after_link, 1), "fallback")
    /\ HasKind(ItalicScan(after_bold, 1), "fallback")
    /\ result = text

\* text is "**" c "**" for a c that holds no "**" (and, to keep to the plain
\* case, no bracket, so that the image and link passes have nothing to do,
\* and no asterisk at either end of c).
BoldWrapped(t) ==
    /\ Len(t) >= 4
    /\ SubSeq(t, 1, 2) = <<"*", "*">>
    /\ SubSeq(t, Len(t) - 1, Len(t)) = <<"*", "*">>
    /\ \A k \in 3..Len(t) - 3 : ~(t[k] = "*" /\ t[k + 1] = "*")
    /\ \A k \in 3..Len(t) - 2 : t[k] # "["
    /\ Len(t) >= 5 /\ t[3] # "*" /\ t[Len(t) - 2] # "*"

\* C2: for every c without "**", process_inline_markdown("**" c "**") is
\* "<strong>" escape_html(c) "</strong>", with no "<em>" inside.
C2_BoldSpanKeepsAsterisks ==
    (pc = "done" /\ BoldWrapped(text)) =>
        result = STRONG_OPEN \o escape_html(SubSeq(text, 3, Len(text) - 2))
                     \o STRONG_CLOSE

\* The positions parse_italic treats as delimiters: where a scan for a
\* closing asterisk starts, and where it ends.
ItalicDelims(segs) ==
    {segs[k].from : k \in {n \in 1..Len(segs) : segs[n].kind # "lit"}}
        \cup {segs[k].to : k \in {n \in 1..Len(segs) : segs[n].kind = "span"}}

\* The delimiters of the "<em>" spans alone.
EmDelims(segs) ==
    {segs[k].from : k \in {n \in 1..Len(segs) : segs[n].kind = "span"}}
        \cup {segs[k].to : k \in {n \in 1..Len(segs) : segs[n].kind = "span"}}

\* An asterisk neither followed nor preceded by another one.
SingleAsterisk(s, p) ==
    /\ s[p] = "*"
    /\ p = 1 \/ s[p - 1] # "*"
    /\ p = Len(s) \/ s[p + 1] # "*"

\* C10 as stated: an asterisk next to a second asterisk never opens or
\* closes an "<em>" span.
C10_OnlySingleAsterisks ==
    pc = "done" =>
        \A p \in EmDelims(ItalicScan(after_bold, 1)) : SingleAsterisk(after_bold, p)

\* C10 as amended: parse_italic treats an asterisk as a delimiter exactly
\* when no asterisk follows it immediately; the character before it is not
\* looked at.
C10_DelimIffNotFollowed ==
    pc = "done" =>
        /\ ItalicDelims(ItalicScan(after_bold, 1))
              = {p \in 1..Len(after_bold) :
                    /\ after_bold[p] = "*"
                    /\ p = Len(after_bold) \/ after_bold[p + 1] # "*"}
        /\ result = Render(ItalicScan(after_bold, 1))

\* The second asterisk of the "**" of an unterminated bold span opens "<em>".
C10_Witness ==
    /\ pc = "done"
    /\ text = <<"*", "*", "a", "*">>
    /\ after_bold = text
    /\ result = <<"*">> \o EM_OPEN \o <<"a">> \o EM_CLOSE

(***************************************************************************)
(* Properties of markdown_to_html (SpecBlock).                             *)
(***************************************************************************)
\* The loop body has just run on a line: the line.
Stepped == pc = "scan" /\ Len(lines') = Len(lines) + 1
CurLine == lines'[Len(lines')]

Contains(s, c) == \E k \in 1..Len(s) : s[k] = c

\* A line without markdown special characters.
PlainLine(l) ==
    /\ trim(l) # <<>>
    /\ \A p \in {H1_PREFIX, H2_PREFIX, H3_PREFIX, LI_PREFIX, FENCE} :
          ~starts_with(trim(l), p) /\ ~starts_with(l, p)
    /\ ~Contains(l, "*") /\ ~Contains(l, "[") /\ ~Contains(l, "!")

Paragraph(l) == <<"<", "p", ">">> \o escape_html(trim(l)) \o <<"<", "/", "p", ">", NL>>

\* C1: a body of plain lines is rendered as one "<p>" escape_html(trimmed
\* line) "</p>" and a newline per line, so that the reserved characters of
\* the lines reach html only in escaped form.
C1_PlainLinesEscaped ==
    (\A k \in 1..Len(lines) : PlainLine(lines[k])) =>
        html = Concat([k \in 1..Len(lines) |-> Paragraph(lines[k])])

\* C3: a line whose left-trimmed form starts with the fence emits nothing
\* for itself: it toggles the state, and html changes only by the code
\* block that a closing fence flushes.
C3_FenceLineOnlyToggles ==
    [][(Stepped /\ starts_with(trim_start(CurLine), FENCE)) =>
          /\ in_code_block' = ~in_code_block
          /\ html' = IF in_code_block
                     THEN html \o PRE_OPEN \o escape_html(code_content) \o PRE_CLOSE
                     ELSE html
          /\ code_content' = <<>>]_vars

\* The index in lines of the last line that starts with the fence: while a
\* code block is open, its opening fence.
LastFence ==
    CHOOSE k \in 1..Len(lines) :
        /\ starts_with(lines[k], FENCE)
        /\ \A j \in k + 1..Len(lines) : ~starts_with(lines[j], FENCE)

\* The lines since the opening fence, each as read and followed by a newline.
SinceFence ==
    Concat([k \in 1..Len(lines) - LastFence |-> lines[LastFence + k] \o <<NL>>])

\* C5: the closing fence appends "<pre><code>" escape_html(B) "</code></pre>"
\* and a newline, B being the lines since the opening fence, verbatim; the
\* buffer is empty afterwards.
C5_ClosingFenceFlushes ==
    [][(Stepped /\ in_code_block /\ starts_with(CurLine, FENCE)) =>
          /\ html' = html \o PRE_OPEN \o escape_html(SinceFence) \o PRE_CLOSE
          /\ code_content' = <<>>
          /\ ~in_code_block']_vars

C5_Witness ==
    /\ lines = <<FENCE \o <<"r">>, <<" ", "-", " ", "*", "*", "<", "*", "*">>, FENCE>>
    /\ html = PRE_OPEN \o <<" ", "-", " ", "*", "*">> \o LT \o <<"*", "*", NL>>
                  \o PRE_CLOSE
    /\ code_content = <<>>
    /\ ~in_code_block

\* The rules of the Normal state in their order: prefix and tag.
BlockRules ==
    <<[prefix |-> H3_PREFIX, tag |-> <<"h", "3">>],
      [prefix |-> H2_PREFIX, tag |-> <<"h", "2">>],
      [prefix |-> H1_PREFIX, tag |-> <<"h", "1">>],
      [prefix |-> LI_PREFIX, tag |-> <<"l", "i">>],
      [prefix |-> <<>>, tag |-> <<"p">>]>>

\* What the first matching rule emits for a trimmed line; nothing for a
\* blank line.
ExpectedBlock(t) ==
    IF t = <<>> THEN <<>>
    ELSE LET n == CHOOSE k \in 1..Len(BlockRules) :
                     /\ starts_with(t, BlockRules[k].prefix)
                     /\ \A j \in 1..k - 1 : ~starts_with(t, BlockRules[j].prefix)
             r == BlockRules[n]
         IN  <<"<">> \o r.tag \o <<">">>
                 \o process_inline_markdown(SubSeq(t, Len(r.prefix) + 1, Len(t)))
                 \o <<"<", "/">> \o r.tag \o <<">", NL>>

\* C6: in the Normal state a line that is no fence appends to html exactly
\* the block of the first matching rule, applied to the trimmed line, and
\* nothing for a blank line.
C6_FirstMatchingRule ==
    [][(Stepped /\ ~in_code_block /\ ~starts_with(CurLine, FENCE)) =>
          /\ html' = html \o ExpectedBlock(trim(CurLine))
          /\ ~in_code_block'
          /\ code_content' = code_content]_vars

C6_Witness ==
    /\ lines = <<H3_PREFIX \o <<"a">>,
                 <<" ", "-", " ", "*", "*", "<", "*", "*">>,
                 <<"*", "a", "*">>>>
    /\ html = <<"<", "h", "3", ">", "a", "<", "/", "h", "3", ">", NL>>
                  \o <<"<", "l", "i", ">">> \o STRONG_OPEN \o LT \o STRONG_CLOSE
                  \o <<"<", "/", "l", "i", ">", NL>>
                  \o <<"<", "p", ">">> \o EM_OPEN \o <<"a">> \o EM_CLOSE
                  \o <<"<", "/", "p", ">", NL>>

\* C9: when the body ends inside a code block, the value returned is that
\* of the body cut before the unclosed opening fence: the lines after it
\* add nothing, and no partial "<pre><code>" is emitted.
C9_UnterminatedFenceDropped ==
    (pc = "done" /\ in_code_block) =>
        returned = markdown_lines_to_html(SubSeq(lines, 1, LastFence - 1))

C9_Witness ==
    /\ pc = "done"
    /\ in_code_block
    /\ lines = <<<<"a">>, FENCE, <<"a", "<", "&">>>>
    /\ code_content = <<"a", "<", "&", NL>>
    /\ returned = <<"<", "p", ">", "a", "<", "/", "p", ">", NL>>

(***************************************************************************)
(* Properties of parse_post (SpecPost).                                    *)
(***************************************************************************)
\* The frontmatter lines of the file read so far: those after the first
\* line and before the next delimiter line.
FrontOf(c) ==
    LET rest == Tail(c)
        d == first_match({j \in 1..Len(rest) : rest[j] = DELIM})
    IN  IF d = 0 THEN rest ELSE SubSeq(rest, 1, d - 1)

\* The remainder of the last frontmatter line with the prefix, <<"None">>
\* when no line has it.
LastRemainder(c, prefix) ==
    LET fl == FrontOf(c)
        hits == {k \in 1..Len(fl) : starts_with(fl[k], prefix)}
    IN  IF hits = {} THEN NoLine
        ELSE LET k == CHOOSE k \in hits : \A j \in hits : j <= k
             IN  SubSeq(fl[k], Len(prefix) + 1, Len(fl[k]))

\* v without one pair of surrounding quotes, when it has a pair.
OnePairStripped(v) ==
    IF Len(v) >= 2 /\ v[1] = QUOTE /\ v[Len(v)] = QUOTE
    THEN SubSeq(v, 2, Len(v) - 1) ELSE v

\* r is v without its leading and its trailing quotes, all of them.
AllQuotesStripped(v, r) ==
    /\ \E i \in 1..Len(v) + 1 : \E j \in 0..Len(v) :
          /\ r = SubSeq(v, i, j)
          /\ \A k \in 1..i - 1 : v[k] = QUOTE
          /\ \A k \in j + 1..Len(v) : v[k] = QUOTE
    /\ r # <<>> => r[1] # QUOTE /\ r[Len(r)] # QUOTE

Fields == <<[prefix |-> TITLE_PREFIX, name |-> "title"],
            [prefix |-> DATE_PREFIX, name |-> "date"],
            [prefix |-> EXCERPT_PREFIX, name |-> "excerpt"]>>

\* C7 as stated: each field is the remainder of its line with at most one
\* pair of surrounding quotes removed.
C7_OnePairStripped ==
    (pc = "done" /\ post.some) =>
        \A n \in 1..Len(Fields) :
            LET v == LastRemainder(content, Fields[n].prefix)
            IN  v # NoLine => post[Fields[n].name] = OnePairStripped(v)

\* C7 as amended: each field is the remainder of its line with every
\* leading and every trailing quote removed, paired or not.
C7_AllQuotesStripped ==
    (pc = "done" /\ post.some) =>
        \A n \in 1..Len(Fields) :
            LET v == LastRemainder(content, Fields[n].prefix)
            IN  v # NoLine => AllQuotesStripped(v, post[Fields[n].name])

C7_Witness ==
    /\ pc = "done"
    /\ post.some
    /\ content = <<DELIM, TITLE_PREFIX \o <<QUOTE, QUOTE, "a", QUOTE, "a", QUOTE>>,
                   DELIM, <<"a">>>>
    /\ post.title = <<"a", QUOTE, "a">>
    /\ post.html_content = <<"<", "p", ">", "a", "<", "/", "p", ">", NL>>

====
